---------------------------- MODULE Spec2Model ----------------------------
(***************************************************************************)
(* Leaderboard ranking service (le011/ranking).                            *)
(*                                                                         *)
(* The service keeps one Redis sorted set: member = playerID, score = the  *)
(* combined key  newScore*scoreMultiplier + (maxTimestampReversed - ts).   *)
(* `index` is that sorted set, a function from the members present to      *)
(* their combined key; the order of the set (descending key, ties by       *)
(* descending member) is derived from it, as Redis derives it.             *)
(*                                                                         *)
(* Numbers.  scoreMultiplier and maxTimestampReversed are both 1e12 in the *)
(* source.  TLC's integers are 32 bits wide, so the model measures keys in *)
(* a smaller unit: both constants are Scale.  What is kept is what the     *)
(* arithmetic depends on: the two constants are EQUAL, timestamps run      *)
(* over 0 .. maxTimestampReversed and one step beyond.  Combined keys are  *)
(* float64 in the source; every key of the model is an integer far below   *)
(* 2^53, where float64 is exact, so float64(x) is x and int64(x / m) is    *)
(* the quotient truncated toward zero.  (In the source's own unit the same *)
(* holds for scores up to 1000: the keys stay below 1.1e15 < 2^53, and the *)
(* quotient's fraction, a multiple of 1e-12, is wider than a float64 step  *)
(* near 1000, so rounding never carries a quotient to the next integer.)   *)
(***************************************************************************)
EXTENDS Integers, Sequences, FiniteSets

VARIABLES
    index,   \* the sorted set leaderboardKey: [members present -> combined key]
    pc,      \* per caller: "idle", or "zadd" (ZScore done, ZAdd not yet sent)
    req,     \* per caller: the locals of its UpdateScore call in flight
    ledger,  \* history: per player, what the calls made so far asked for
    batch,   \* history: per player, the calls since the player was last quiescent
    rd,      \* the query in flight: its handler, position, locals and result
    snaps    \* history: the (score, rank) pairs the player of the GetPlayerRank
             \* call in flight has had since the call's first command

vars == <<index, pc, req, ledger, batch, rd, snaps>>

----------------------------------------------------------------------------
(* Bounds of the model *)

Scale == 2          \* the unit 1e12 of the source, scaled
NumPlayers == 3     \* players of Spec
LedgerPlayers == 2  \* players of SpecLedger
MaxScore == 2       \* largest newScore a call of the model may produce
MaxDebt == 1        \* a call of the model may drive newScore down to -MaxDebt
NumCallers == 2     \* concurrent callers of SpecConc
ConcPlayers == 2    \* players of SpecConc
WinPlayers == 7     \* players of SpecWin
WinMaxScore == 2    \* largest score of SpecWin
QueryPlayers == 2    \* players of SpecQuery

(* Program constants *)

scoreMultiplier == Scale
maxTimestampReversed == Scale
denseWindowStop == 99

Players == 1 .. NumPlayers
Callers == 1 .. NumCallers
Deltas == {-1, 0, 1}
Timestamps == 0 .. (maxTimestampReversed + 1)
ValidTimestamps == 0 .. maxTimestampReversed

----------------------------------------------------------------------------
(* Arithmetic of the source *)

\* Go's integer division and int64(float) conversion truncate toward zero.
TruncDiv(a, b) == IF a >= 0 THEN a \div b ELSE -((-a) \div b)

\* int64(combinedScore / scoreMultiplier)
DecodeScore(combinedScore) == TruncDiv(combinedScore, scoreMultiplier)

\* float64(newScore*scoreMultiplier + (maxTimestampReversed - timestamp))
Encode(newScore, timestamp) ==
    newScore * scoreMultiplier + (maxTimestampReversed - timestamp)

----------------------------------------------------------------------------
(* The Redis sorted-set commands the service sends *)

EmptyIndex == [m \in {} |-> 0]

\* ZSCORE: the member's score, or redis.Nil (go-redis then yields value 0).
ZScore(idx, member) ==
    IF member \in DOMAIN idx
    THEN [val |-> idx[member], err |-> "nil"]
    ELSE [val |-> 0, err |-> "redis.Nil"]

\* An index keyed by score: the member written evicts the members that hold
\* the same score.
ZAddKeyedByScore(idx, member, score) ==
    [m \in {x \in DOMAIN idx : idx[x] # score} \cup {member} |->
        IF m = member THEN score ELSE idx[m]]

\* ZADD of one member: insert, or replace the member's score.
ZAdd(idx, member, score) ==
    [m \in (DOMAIN idx) \cup {member} |-> IF m = member THEN score ELSE idx[m]]

\* a comes before b in the reverse (ZREV*) order of the set: greater score
\* first, equal scores by descending member.
Before(idx, a, b) ==
    \/ idx[a] > idx[b]
    \/ idx[a] = idx[b] /\ a > b

\* ZREVRANK: the 0-based position in reverse order, or redis.Nil.
ZRevRank(idx, member) ==
    IF member \in DOMAIN idx
    THEN [val |-> Cardinality({m \in DOMAIN idx : Before(idx, m, member)}),
          err |-> "nil"]
    ELSE [val |-> 0, err |-> "redis.Nil"]

\* ZREVRANGE ... WITHSCORES start stop: negative positions count from the
\* end, stop is clamped to the last position, an empty range yields nothing.
ZRevRangeWithScores(idx, start, stop) ==
    LET n == Cardinality(DOMAIN idx)
        s0 == IF start < 0 THEN start + n ELSE start
        e0 == IF stop < 0 THEN stop + n ELSE stop
        s == IF s0 < 0 THEN 0 ELSE s0
        e == IF e0 >= n THEN n - 1 ELSE e0
        pos == [m \in DOMAIN idx |-> ZRevRank(idx, m).val]
    IN  IF s > e \/ s >= n
        THEN << >>
        ELSE [i \in 1 .. (e - s + 1) |->
                LET m == CHOOSE x \in DOMAIN idx : pos[x] = s + i - 1
                IN  [Member |-> m, Score |-> idx[m]]]

\* A ZCOUNT range end: "+inf", "-inf", a score, or "(" and a score (exclusive).
PlusInf == [inf |-> 1, ex |-> FALSE, val |-> 0]

\* fmt.Sprintf("(%f", combinedScore): the key printed with six decimals
\* (all zero for an integral key) behind the exclusive mark; Redis reads the
\* number back.
ExclusiveScoreStr(combinedScore) ==
    LET micros == combinedScore * 1000000
    IN  [inf |-> 0, ex |-> TRUE, val |-> TruncDiv(micros, 1000000)]

AtLeastMin(x, min) ==
    \/ min.inf = -1
    \/ min.inf = 0 /\ (IF min.ex THEN x > min.val ELSE x >= min.val)

AtMostMax(x, max) ==
    \/ max.inf = 1
    \/ max.inf = 0 /\ (IF max.ex THEN x < max.val ELSE x <= max.val)

\* ZCOUNT with the two range ends exchanged: the count of the keys above an
\* exclusive lower end, which is what the comment at part_000:89 describes.
ZCountArgsSwapped(idx, min, max) ==
    Cardinality({m \in DOMAIN idx : AtLeastMin(idx[m], max) /\ AtMostMax(idx[m], min)})

\* ZCOUNT key min max: the members whose score lies between min and max.
ZCount(idx, min, max) ==
    Cardinality({m \in DOMAIN idx : AtLeastMin(idx[m], min) /\ AtMostMax(idx[m], max)})
----------------------------------------------------------------------------
(* The queries.  Each is a read of the sorted set and changes nothing; the *)
(* operators below give what a call returns when no ZADD falls between its *)
(* commands.  A result is [err, out]: out is the list returned, or for the *)
(* *RankInfo queries a list of one element, empty when the pointer is nil. *)

RankInfo(playerID, score, rank) ==
    [PlayerID |-> playerID, Score |-> score, Rank |-> rank]

\* GetPlayerRank reporting the position ZREVRANK replies, which counts from 0.
GetPlayerRankFromZero(idx, playerID) ==
    LET rank == ZRevRank(idx, playerID)
        combinedScore == ZScore(idx, playerID).val
    IN  IF rank.err = "redis.Nil"
        THEN [err |-> "not found", out |-> << >>]
        ELSE [err |-> "nil",
              out |-> <<RankInfo(playerID, DecodeScore(combinedScore), rank.val)>>]

GetPlayerRank(idx, playerID) ==
    LET rank == ZRevRank(idx, playerID)
        combinedScore == ZScore(idx, playerID).val
    IN  IF rank.err = "redis.Nil"
        THEN [err |-> "not found", out |-> << >>]
        ELSE [err |-> "nil",
              out |-> <<RankInfo(playerID, DecodeScore(combinedScore), rank.val + 1)>>]

\* The loop "for i, member := range results" of GetTopN and
\* GetPlayerRankRange: entry i (0-based) gets rank firstRank + i.
Rankings(results, firstRank) ==
    [i \in 1 .. Len(results) |->
        RankInfo(results[i].Member, DecodeScore(results[i].Score), firstRank + i - 1)]

\* GetTopN with the stop position n instead of n - 1.
GetTopNStopAtN(idx, n) ==
    [err |-> "nil", out |-> Rankings(ZRevRangeWithScores(idx, 0, n), 1)]

GetTopN(idx, n) ==
    [err |-> "nil", out |-> Rankings(ZRevRangeWithScores(idx, 0, n - 1), 1)]

\* GetPlayerRankRange without the clamp of startRank to 1 (lines 110-112).
GetPlayerRankRangeUnclamped(idx, playerID, nRange) ==
    LET playerRankInfo == GetPlayerRank(idx, playerID)
        playerRank == playerRankInfo.out[1].Rank
        startRank == playerRank - TruncDiv(nRange, 2)
        endRank == startRank + nRange - 1
    IN  IF playerRankInfo.err # "nil"
        THEN [err |-> playerRankInfo.err, out |-> << >>]
        ELSE [err |-> "nil",
              out |-> Rankings(ZRevRangeWithScores(idx, startRank - 1, endRank - 1),
                               startRank)]

\* GetPlayerRankRange numbering its entries from the rank below the player's,
\* whether or not the window starts there.
GetPlayerRankRangeNumberedFromLow(idx, playerID, nRange) ==
    LET playerRankInfo == GetPlayerRank(idx, playerID)
        playerRank == playerRankInfo.out[1].Rank
        lowRank == playerRank - TruncDiv(nRange, 2)
        startRank == IF lowRank < 1 THEN 1 ELSE lowRank
        endRank == startRank + nRange - 1
    IN  IF playerRankInfo.err # "nil"
        THEN [err |-> playerRankInfo.err, out |-> << >>]
        ELSE [err |-> "nil",
              out |-> Rankings(ZRevRangeWithScores(idx, startRank - 1, endRank - 1),
                               lowRank)]

GetPlayerRankRange(idx, playerID, nRange) ==
    LET playerRankInfo == GetPlayerRank(idx, playerID)
        playerRank == playerRankInfo.out[1].Rank
        lowRank == playerRank - TruncDiv(nRange, 2)
        startRank == IF lowRank < 1 THEN 1 ELSE lowRank
        endRank == startRank + nRange - 1
    IN  IF playerRankInfo.err # "nil"
        THEN [err |-> playerRankInfo.err, out |-> << >>]
        ELSE [err |-> "nil",
              out |-> Rankings(ZRevRangeWithScores(idx, startRank - 1, endRank - 1),
                               startRank)]

GetPlayerRankDense(idx, playerID) ==
    LET combinedScore == ZScore(idx, playerID)
        higherScoreCount == ZCount(idx, PlusInf, ExclusiveScoreStr(combinedScore.val))
        denseRank == higherScoreCount + 1
    IN  IF combinedScore.err = "redis.Nil"
        THEN [err |-> "not found", out |-> << >>]
        ELSE [err |-> "nil",
              out |-> <<RankInfo(playerID, DecodeScore(combinedScore.val), denseRank)>>]

\* The loop of GetTopNDense from entry i (1-based, i >= 2) on.
RECURSIVE DenseLoop(_, _, _, _, _)
DenseLoop(results, i, currentRank, rankings, limit) ==
    IF i > Len(results)
    THEN rankings
    ELSE LET currentScore == DecodeScore(results[i].Score)
             prevScore == DecodeScore(results[i - 1].Score)
             rank == IF currentScore < prevScore THEN currentRank + 1 ELSE currentRank
         IN  IF limit > 0 /\ rank > limit
             THEN rankings
             ELSE DenseLoop(results, i + 1, rank,
                            Append(rankings, RankInfo(results[i].Member, currentScore, rank)),
                            limit)

GetTopNDense(idx, limit) ==
    LET results == ZRevRangeWithScores(idx, 0, denseWindowStop)
    IN  IF Len(results) = 0
        THEN [err |-> "nil", out |-> << >>]
        ELSE [err |-> "nil",
              out |-> DenseLoop(results, 2, 1,
                                <<RankInfo(results[1].Member,
                                           DecodeScore(results[1].Score), 1)>>,
                                limit)]

----------------------------------------------------------------------------
(* The queries command by command.  rd holds the call in flight: op is the *)
(* handler ("rank", "dense", "range"), pc the command it sends next, or     *)
(* "done" once it has returned err and out.                                 *)

NoRead ==
    [op |-> "none", pc |-> "idle", playerID |-> 0, nRange |-> 0, rank |-> 0,
     combinedScore |-> 0, err |-> "nil", out |-> << >>]

Returned(op, playerID, nRange, err, out) ==
    [op |-> op, pc |-> "done", playerID |-> playerID, nRange |-> nRange, rank |-> 0,
     combinedScore |-> 0, err |-> err, out |-> out]

\* GetPlayerRank, lines 62-68: ZREVRANK.  GetPlayerRankRange starts with it.
AfterZRevRank(idx, op, playerID, nRange) ==
    LET rank == ZRevRank(idx, playerID)
    IN  IF rank.err = "redis.Nil"
        THEN Returned(op, playerID, nRange, "not found", << >>)
        ELSE [op |-> op, pc |-> "zscore", playerID |-> playerID, nRange |-> nRange,
              rank |-> rank.val, combinedScore |-> 0, err |-> "nil", out |-> << >>]

\* GetPlayerRank, lines 70-80: ZSCORE and the RankInfo; GetPlayerRankRange
\* goes on with the Rank of it (line 107).
AfterZScore(idx, r) ==
    LET combinedScore == ZScore(idx, r.playerID)
    IN  IF combinedScore.err # "nil"
        THEN Returned(r.op, r.playerID, r.nRange, combinedScore.err, << >>)
        ELSE IF r.op = "rank"
        THEN Returned(r.op, r.playerID, r.nRange, "nil",
                      <<RankInfo(r.playerID, DecodeScore(combinedScore.val), r.rank + 1)>>)
        ELSE [r EXCEPT !.pc = "zrevrange", !.rank = r.rank + 1]

\* GetPlayerRankRange, lines 109-128: the window around playerRank.
AfterZRevRange(idx, r) ==
    LET playerRank == r.rank
        lowRank == playerRank - TruncDiv(r.nRange, 2)
        startRank == IF lowRank < 1 THEN 1 ELSE lowRank
        endRank == startRank + r.nRange - 1
    IN  Returned(r.op, r.playerID, r.nRange, "nil",
                 Rankings(ZRevRangeWithScores(idx, startRank - 1, endRank - 1), startRank))

\* GetPlayerRankDense with redis.Nil let through, as UpdateScore lets it
\* through (the value is then 0).
AfterDenseZScoreNilIgnored(idx, playerID) ==
    [op |-> "dense", pc |-> "zcount", playerID |-> playerID, nRange |-> 0,
     rank |-> 0, combinedScore |-> ZScore(idx, playerID).val, err |-> "nil",
     out |-> << >>]

\* GetPlayerRankDense, lines 79-86: ZSCORE.
AfterDenseZScore(idx, playerID) ==
    LET combinedScore == ZScore(idx, playerID)
    IN  IF combinedScore.err = "redis.Nil"
        THEN Returned("dense", playerID, 0, "not found", << >>)
        ELSE [op |-> "dense", pc |-> "zcount", playerID |-> playerID, nRange |-> 0,
              rank |-> 0, combinedScore |-> combinedScore.val, err |-> "nil",
              out |-> << >>]

\* GetPlayerRankDense, lines 91-104: ZCOUNT and the RankInfo.
AfterZCount(idx, r) ==
    LET higherScoreCount == ZCount(idx, PlusInf, ExclusiveScoreStr(r.combinedScore))
    IN  Returned(r.op, r.playerID, 0, "nil",
                 <<RankInfo(r.playerID, DecodeScore(r.combinedScore),
                            higherScoreCount + 1)>>)

----------------------------------------------------------------------------
(* UpdateScore *)

NoReq == [playerID |-> 0, incrScore |-> 0, timestamp |-> 0, oldCombinedScore |-> 0]

\* Lines 47-50: the key UpdateScore writes, from the key it read.
NewCombinedScore(oldCombinedScore, incrScore, timestamp) ==
    LET oldScore == DecodeScore(oldCombinedScore)
        newScore == oldScore + incrScore
    IN  Encode(newScore, timestamp)

\* The score a call would compute in the present state.
NewScore(idx, playerID, incrScore) ==
    DecodeScore(ZScore(idx, playerID).val) + incrScore

\* What a call returns: the error of its ZADD, which is nil.  The source
\* validates neither incrScore nor timestamp.
UpdateScoreErr(idx, playerID, incrScore, timestamp) == "nil"

\* A whole call with no other command between its ZSCORE and its ZADD.
UpdateScore(playerID, incrScore, timestamp) ==
    /\ index' = ZAdd(index, playerID,
                     NewCombinedScore(ZScore(index, playerID).val, incrScore, timestamp))
    /\ UNCHANGED <<pc, req>>

\* The first half of a call: ZSCORE, the result kept in the call's locals.
UpdateScoreRead(c, playerID, incrScore, timestamp) ==
    /\ pc[c] = "idle"
    /\ pc' = [pc EXCEPT ![c] = "zadd"]
    /\ req' = [req EXCEPT ![c] =
                 [playerID |-> playerID, incrScore |-> incrScore, timestamp |-> timestamp,
                  oldCombinedScore |-> ZScore(index, playerID).val]]
    /\ UNCHANGED index

\* The second half: ZADD of the key computed from the locals, and return.
UpdateScoreWrite(c) ==
    /\ pc[c] = "zadd"
    /\ index' = ZAdd(index, req[c].playerID,
                     NewCombinedScore(req[c].oldCombinedScore, req[c].incrScore,
                                      req[c].timestamp))
    /\ pc' = [pc EXCEPT ![c] = "idle"]
    /\ req' = [req EXCEPT ![c] = NoReq]

----------------------------------------------------------------------------
(* Specifications *)

NoLedger == [total |-> 0, timestamp |-> 0, valid |-> TRUE]
NoBatch == [base |-> 0, sum |-> 0, calls |-> 0]

Init ==
    /\ index = EmptyIndex
    /\ pc = [c \in Callers |-> "idle"]
    /\ req = [c \in Callers |-> NoReq]
    /\ ledger = [p \in 1 .. LedgerPlayers |-> NoLedger]
    /\ batch = [p \in 1 .. ConcPlayers |-> NoBatch]
    /\ rd = NoRead
    /\ snaps = {}

\* The model's bound on the scores a call may produce.
InBounds(idx, playerID, incrScore) ==
    /\ NewScore(idx, playerID, incrScore) >= -MaxDebt
    /\ NewScore(idx, playerID, incrScore) <= MaxScore

\* Spec: calls one after another, any player, delta and timestamp.
Next ==
    \E p \in Players, d \in Deltas, t \in Timestamps :
        /\ InBounds(index, p, d)
        /\ UpdateScore(p, d, t)
        /\ UNCHANGED <<ledger, batch, rd, snaps>>

Spec == Init /\ [][Next]_vars


\* SpecLedger: as Spec, over LedgerPlayers players and with the ledger kept.  For each player the ledger
\* holds the sum of the deltas of its calls, the timestamp of its last call,
\* and whether every call so far had a timestamp in [0, maxTimestampReversed]
\* and left a non-negative sum.
Posted(p, d, t) ==
    [ledger EXCEPT ![p] =
        [total |-> @.total + d,
         timestamp |-> t,
         valid |-> @.valid /\ t \in ValidTimestamps /\ @.total + d >= 0]]

LedgerNext ==
    \E p \in 1 .. LedgerPlayers, d \in Deltas, t \in Timestamps :
        /\ InBounds(index, p, d)
        /\ ledger[p].total + d >= -MaxDebt
        /\ ledger[p].total + d <= MaxScore
        /\ UpdateScore(p, d, t)
        /\ ledger' = Posted(p, d, t)
        /\ UNCHANGED <<batch, rd, snaps>>

SpecLedger == Init /\ [][LedgerNext]_vars

\* SpecConc: NumCallers callers, each making call after call; the ZSCORE and
\* the ZADD of a call are separate steps, and the steps of different calls
\* interleave in any order.  Timestamps are those strictly inside the range,
\* deltas are positive.  The batch of a player is the run of calls on it since
\* no call on it was in flight: the score it had then, the sum of the deltas
\* of the calls, and their number.
InFlight(p) == {c \in Callers : pc[c] = "zadd" /\ req[c].playerID = p}

Joined(p, d) ==
    [batch EXCEPT ![p] =
        IF InFlight(p) = {}
        THEN [base |-> DecodeScore(ZScore(index, p).val), sum |-> d, calls |-> 1]
        ELSE [base |-> @.base, sum |-> @.sum + d, calls |-> @.calls + 1]]

ConcRead ==
    \E c \in Callers, p \in 1 .. ConcPlayers, d \in 1 .. MaxScore,
       t \in 1 .. maxTimestampReversed :
        /\ InBounds(index, p, d)
        /\ UpdateScoreRead(c, p, d, t)
        /\ batch' = Joined(p, d)
        /\ UNCHANGED <<ledger, rd, snaps>>

ConcWrite ==
    \E c \in Callers :
        /\ UpdateScoreWrite(c)
        /\ UNCHANGED <<ledger, batch, rd, snaps>>

ConcNext == ConcRead \/ ConcWrite

SpecConc == Init /\ [][ConcNext]_vars

\* SpecWin: a larger population with few keys each.  Calls one after
\* another, each adding 1 at timestamp 1, up to WinMaxScore.
WinNext ==
    \E p \in 1 .. WinPlayers :
        /\ NewScore(index, p, 1) <= WinMaxScore
        /\ UpdateScore(p, 1, 1)
        /\ UNCHANGED <<ledger, batch, rd, snaps>>

SpecWin == Init /\ [][WinNext]_vars

\* SpecBulk: a population one larger than the window GetTopNDense fetches.
\* Players enter in the order of their names, each with delta 1 at timestamp
\* 1 (the loop over the players in main); the first player may be updated
\* again, which gives the leaderboard more than one score class.
BulkPlayers == denseWindowStop + 2

BulkEnter ==
    \E p \in 1 .. BulkPlayers :
        /\ p = Cardinality(DOMAIN index) + 1
        /\ UpdateScore(p, 1, 1)
        /\ UNCHANGED <<ledger, batch, rd, snaps>>

BulkAgain ==
    /\ 1 \in DOMAIN index
    /\ NewScore(index, 1, 1) <= MaxScore
    /\ UpdateScore(1, 1, 1)
    /\ UNCHANGED <<ledger, batch, rd, snaps>>

BulkNext == BulkEnter \/ BulkAgain

SpecBulk == Init /\ [][BulkNext]_vars

\* SpecQuery: one caller of UpdateScore and one of the queries, over
\* QueryPlayers players; every Redis command is a step, except that an
\* UpdateScore is one step (its ZSCORE changes nothing).  The timestamp
\* is 1, deltas are 0 and 1.
Snap(idx, p) == <<DecodeScore(idx[p]), ZRevRank(idx, p).val + 1>>

CanCall == rd.pc \in {"idle", "done"}

QueryUpdate ==
    \E p \in 1 .. QueryPlayers, d \in {0, 1}, t \in {1} :
        /\ InBounds(index, p, d)
        /\ UpdateScore(p, d, t)
        /\ snaps' = IF rd.op = "rank" /\ rd.pc = "zscore"
                    THEN snaps \cup {Snap(index', rd.playerID)}
                    ELSE snaps
        /\ UNCHANGED <<ledger, batch, rd>>

GetPlayerRankCall ==
    \E p \in 1 .. QueryPlayers :
        /\ CanCall
        /\ rd' = AfterZRevRank(index, "rank", p, 0)
        /\ snaps' = IF p \in DOMAIN index THEN {Snap(index, p)} ELSE {}
        /\ UNCHANGED <<index, pc, req, ledger, batch>>

GetPlayerRankRangeCall ==
    \E p \in 1 .. QueryPlayers, n \in 0 .. 2 :
        /\ CanCall
        /\ rd' = AfterZRevRank(index, "range", p, n)
        /\ snaps' = {}
        /\ UNCHANGED <<index, pc, req, ledger, batch>>

GetPlayerRankDenseCall ==
    \E p \in 1 .. QueryPlayers :
        /\ CanCall
        /\ rd' = AfterDenseZScore(index, p)
        /\ snaps' = {}
        /\ UNCHANGED <<index, pc, req, ledger, batch>>

QueryZScore ==
    /\ rd.pc = "zscore"
    /\ rd' = AfterZScore(index, rd)
    /\ UNCHANGED <<index, pc, req, ledger, batch, snaps>>

QueryZRevRange ==
    /\ rd.pc = "zrevrange"
    /\ rd' = AfterZRevRange(index, rd)
    /\ UNCHANGED <<index, pc, req, ledger, batch, snaps>>

QueryZCount ==
    /\ rd.pc = "zcount"
    /\ rd' = AfterZCount(index, rd)
    /\ UNCHANGED <<index, pc, req, ledger, batch, snaps>>

QueryNext ==
    \/ QueryUpdate
    \/ GetPlayerRankCall
    \/ GetPlayerRankRangeCall
    \/ GetPlayerRankDenseCall
    \/ QueryZScore
    \/ QueryZRevRange
    \/ QueryZCount

SpecQuery == Init /\ [][QueryNext]_vars

----------------------------------------------------------------------------
(* Properties over Spec *)

Present == DOMAIN index
ScoreOf(p) == GetPlayerRank(index, p).out[1].Score
RankOf(p) == GetPlayerRank(index, p).out[1].Rank
DenseRankOf(p) == GetPlayerRankDense(index, p).out[1].Rank

\* C2.  Encoding round trip: a call that computes a newScore in 0..MaxScore
\* with a timestamp in [0, maxTimestampReversed) leaves a key that decodes,
\* as the rank queries decode it, to exactly that newScore.
C2_RoundTrip ==
    [][\A p \in Players, d \in Deltas, t \in 0 .. (maxTimestampReversed - 1) :
          (UpdateScore(p, d, t) /\ NewScore(index, p, d) \in 0 .. MaxScore)
              => DecodeScore(ZScore(index', p).val) = NewScore(index, p, d)]_vars

\* C3.  Dense-rank equality: any two players present whose decoded score is
\* equal get the same rank from GetPlayerRankDense, whatever their keys'
\* timestamp parts are.
C3_DenseRankEquality ==
    \A p \in Present, q \in Present :
        ScoreOf(p) = ScoreOf(q) => DenseRankOf(p) = DenseRankOf(q)

\* Two players with equal score and different timestamp parts, and a third
\* score above theirs.
C3_Witness ==
    \E p \in Present, q \in Present, r \in Present :
        /\ p # q
        /\ ScoreOf(p) = ScoreOf(q)
        /\ index[p] # index[q]
        /\ ScoreOf(r) > ScoreOf(p)
        /\ DenseRankOf(p) = DenseRankOf(q)

\* C4.  Dense rank value: GetPlayerRankDense returns 1 plus the number of
\* distinct scores in the leaderboard strictly greater than the player's.
C4_DenseRankValue ==
    \A p \in Present :
        DenseRankOf(p) =
            1 + Cardinality({ScoreOf(q) : q \in {x \in Present : ScoreOf(x) > ScoreOf(p)}})

\* C5.  GetTopN(n) with n <= 0 returns an empty list, whatever the population.
C5_TopNNonPositiveEmpty ==
    \A n \in (0 - NumPlayers - 1) .. 0 : GetTopN(index, n).out = << >>

\* C7.  A call whose newScore is negative, or whose timestamp lies outside
\* [0, maxTimestampReversed], returns an error and leaves the index as it was.
C7_RejectsInvalidInput ==
    [][\A p \in Players, d \in Deltas, t \in Timestamps :
          (UpdateScore(p, d, t)
              /\ (NewScore(index, p, d) < 0 \/ t \notin ValidTimestamps))
              => (UpdateScoreErr(index, p, d, t) # "nil" /\ index' = index)]_vars

----------------------------------------------------------------------------
(* Properties over SpecLedger *)

\* C8.  Score accumulation: after calls made one after another, all with
\* timestamps in [0, maxTimestampReversed] and non-negative running totals,
\* the score GetPlayerRank reports for a player is the sum of the deltas
\* applied to that player (no earlier call: the sum starts from zero).
C8_ScoreAccumulation ==
    \A p \in Present : ledger[p].valid => ScoreOf(p) = ledger[p].total

\* C10.  Tie-break: of two players with equal reported score and different
\* last-update timestamps (all their timestamps in [0, maxTimestampReversed]),
\* the one with the smaller timestamp has the strictly smaller standard rank.
C10_TieBreak ==
    \A p \in Present, q \in Present :
        (/\ ledger[p].valid /\ ledger[q].valid
         /\ ScoreOf(p) = ScoreOf(q)
         /\ ledger[p].timestamp < ledger[q].timestamp)
            => RankOf(p) < RankOf(q)

----------------------------------------------------------------------------
(* Properties over SpecConc *)

\* C1.  No lost update: when two calls for the same player have overlapped
\* and both have returned, the player's score is the score before the two
\* calls plus the two deltas.
C1_NoLostUpdate ==
    \A p \in 1 .. ConcPlayers :
        (batch[p].calls = 2 /\ InFlight(p) = {})
            => DecodeScore(ZScore(index, p).val) = batch[p].base + batch[p].sum

----------------------------------------------------------------------------
(* Properties over SpecWin *)

WindowOf(target, nRange) == GetPlayerRankRange(index, target, nRange).out

\* C6, as claimed.  Rank-window size: in a population of 7, for every target
\* GetPlayerRankRange(target, 4) returns exactly 4 entries, and fewer than 4
\* only if the target's standard rank is within 2 of the top.
C6_WindowSizeAsClaimed ==
    Cardinality(Present) = 7 =>
        \A target \in Present :
            \/ Len(WindowOf(target, 4)) = 4
            \/ Len(WindowOf(target, 4)) < 4 /\ RankOf(target) - 1 <= 2

\* C6, amended.  In a population of 7, GetPlayerRankRange(target, 4) returns
\* exactly 4 entries for every target of standard rank 1 to 6 and exactly 3
\* entries for the target of standard rank 7: the window is cut short at the
\* bottom of the leaderboard only, never at the top.
C6_WindowSize ==
    Cardinality(Present) = 7 =>
        \A target \in Present :
            /\ RankOf(target) <= 6 => Len(WindowOf(target, 4)) = 4
            /\ RankOf(target) = 7 => Len(WindowOf(target, 4)) = 3

\* A population of 7 with scores that differ, queried for its first and for
\* its last player.
C6_Witness ==
    /\ Cardinality(Present) = 7
    /\ \E top \in Present, last \in Present :
        /\ RankOf(top) = 1
        /\ RankOf(last) = 7
        /\ ScoreOf(top) > ScoreOf(last)
        /\ Len(WindowOf(top, 4)) = 4
        /\ Len(WindowOf(last, 4)) = 3

----------------------------------------------------------------------------
(* Properties over SpecBulk *)

\* The players GetTopNDense(limit) returns.
DenseTop(limit) ==
    LET out == GetTopNDense(index, limit).out
    IN  {out[i].PlayerID : i \in 1 .. Len(out)}

\* The players whose score is among the `limit` highest distinct scores.
InTopClasses(limit) ==
    LET scores == {DecodeScore(index[p]) : p \in Present}
    IN  {p \in Present :
            Cardinality({s \in scores : s > DecodeScore(index[p])}) < limit}

\* C9.  GetTopNDense completeness: for limit > 0 the call returns exactly the
\* players whose score is among the `limit` highest distinct scores, and for
\* limit = 0 every player of the leaderboard, whatever the population size.
C9_TopNDenseComplete ==
    /\ DenseTop(0) = Present
    /\ \A limit \in 1 .. 2 : DenseTop(limit) = InTopClasses(limit)

----------------------------------------------------------------------------
(* Further properties over Spec *)

Min(a, b) == IF a <= b THEN a ELSE b

\* C11.  GetTopN(n) for n >= 1 returns exactly min(n, population) entries;
\* their ranks are 1, 2, ..., k in order and their scores never increase
\* along the list.
C11_TopN ==
    \A n \in 1 .. (NumPlayers + 1) :
        LET out == GetTopN(index, n).out
        IN  /\ Len(out) = Min(n, Cardinality(Present))
            /\ \A i \in 1 .. Len(out) : out[i].Rank = i
            /\ \A i \in 1 .. (Len(out) - 1) : out[i].Score >= out[i + 1].Score

\* Three players or more, of which GetTopN(2) returns two with different
\* scores, and GetTopN of more than the population returns them all.
C11_Witness ==
    /\ Cardinality(Present) >= 3
    /\ Len(GetTopN(index, 2).out) = 2
    /\ GetTopN(index, 2).out[1].Score > GetTopN(index, 2).out[2].Score
    /\ Len(GetTopN(index, NumPlayers + 1).out) = Cardinality(Present)

----------------------------------------------------------------------------
(* Properties over SpecQuery *)

\* C12.  A query (GetPlayerRank, GetPlayerRankDense, GetPlayerRankRange) that
\* returns for a player no UpdateScore has upserted (no member is ever
\* removed, so that is a player absent from the index) returns the not-found
\* error and no result, and the step leaves the index as it was.
C12_Absence ==
    [][(rd' # rd /\ rd'.pc = "done" /\ rd'.playerID \notin DOMAIN index')
          => /\ rd'.err = "not found"
             /\ rd'.out = << >>
             /\ index' = index]_vars

C12_Witness ==
    /\ rd.pc = "done"
    /\ rd.op = "dense"
    /\ rd.playerID \notin DOMAIN index
    /\ rd.err = "not found"
    /\ DOMAIN index # {}

\* C15.  The (score, rank) pair a GetPlayerRank call returns is a pair the
\* player had in one state of the index between the call's first command
\* and its return.
C15_SnapshotConsistent ==
    (rd.op = "rank" /\ rd.pc = "done" /\ rd.err = "nil")
        => <<rd.out[1].Score, rd.out[1].Rank>> \in snaps

----------------------------------------------------------------------------
(* Properties of the UpdateScore step *)

\* C13.  UpdateScore(id, 0, t), t a timestamp of the range, on a present
\* player of non-negative score leaves the player's decoded score as it was,
\* leaves its order relative to every player of a different score as it was,
\* and a second UpdateScore(id, 0, t) would leave the index as the first left
\* it.
C13_ZeroDeltaIdempotent ==
    [][\A p \in Present, t \in ValidTimestamps :
          (UpdateScore(p, 0, t) /\ ScoreOf(p) >= 0)
             => /\ DecodeScore(index'[p]) = ScoreOf(p)
                /\ \A q \in Present \ {p} :
                       ScoreOf(q) # ScoreOf(p)
                          => (Before(index, p, q) <=> Before(index', p, q))
                /\ ZAdd(index', p, NewCombinedScore(index'[p], 0, t)) = index']_vars

----------------------------------------------------------------------------
(* Further properties over SpecWin *)

\* C14.  For every present player and every window size >= 1 (odd, even,
\* larger than the population), the list GetPlayerRankRange returns contains
\* the player, its entries carry consecutive ranks starting at
\* max(1, standardRank - windowSize/2), and the rank of every entry is the
\* rank GetPlayerRank returns for that entry's player.
C14_WindowContent ==
    \A target \in Present, nRange \in {1, 2, 3, 4, 9} :
        LET out == WindowOf(target, nRange)
            low == RankOf(target) - TruncDiv(nRange, 2)
            first == IF low < 1 THEN 1 ELSE low
        IN  /\ \E i \in 1 .. Len(out) : out[i].PlayerID = target
            /\ \A i \in 1 .. Len(out) :
                   /\ out[i].Rank = first + i - 1
                   /\ out[i].Rank = RankOf(out[i].PlayerID)

\* A population of 7 in which some player's window of 3 starts at rank 1
\* after clamping and another player's window of 4 starts below rank 1.
C14_Witness ==
    /\ Cardinality(Present) = 7
    /\ \E top \in Present, mid \in Present :
        /\ RankOf(top) = 1
        /\ WindowOf(top, 4)[1].Rank = 1
        /\ RankOf(mid) = 5
        /\ WindowOf(mid, 4)[1].Rank = 3
        /\ Len(WindowOf(mid, 9)) = 7

\* C18.  A whole UpdateScore(p, delta, t) changes the key of p only: every
\* other player present stays present with the key, and so the decoded
\* score, it had, and the players present afterwards are those present
\* before and p.
C18_Frame ==
    [][\A p \in 1 .. WinPlayers :
          UpdateScore(p, 1, 1)
             => /\ \A q \in Present \ {p} :
                       /\ q \in DOMAIN index'
                       /\ index'[q] = index[q]
                       /\ DecodeScore(index'[q]) = ScoreOf(q)
                /\ Present \subseteq DOMAIN index'
                /\ DOMAIN index' \subseteq Present \cup {p}]_vars

\* All 7 players present, two with one key and a third with a greater one:
\* players were inserted and rewritten with others present, equal keys among
\* them.
C18_Witness ==
    /\ Cardinality(Present) = 7
    /\ \E p \in Present, q \in Present, r \in Present :
        /\ p # q
        /\ index[p] = index[q]
        /\ index[r] > index[p]

----------------------------------------------------------------------------
(* Further properties of the queries over Spec *)

\* C16.  For every present player and every window size >= 0,
\* GetPlayerRankRange returns at most that many entries; a window size of 0
\* yields the empty list.
C16_WindowBound ==
    \A target \in Present, nRange \in 0 .. (NumPlayers + 1) :
        Len(WindowOf(target, nRange)) <= nRange

\* C17.  In every state reached by UpdateScore calls made one after another,
\* the standard ranks of the players present are exactly 1 .. population, no
\* two players share a rank, and every entry of GetTopN(n), n >= 1, is the
\* RankInfo GetPlayerRank returns for that entry's player.
C17_RankAgreement ==
    /\ \A p \in Present, q \in Present : RankOf(p) = RankOf(q) => p = q
    /\ {RankOf(p) : p \in Present} = 1 .. Cardinality(Present)
    /\ \A n \in 1 .. (NumPlayers + 1) :
           LET out == GetTopN(index, n).out
           IN  \A i \in 1 .. Len(out) :
                   <<out[i]>> = GetPlayerRank(index, out[i].PlayerID).out

\* Three players present, two of them with the same key, and a list of two.
C17_Witness ==
    /\ Cardinality(Present) = 3
    /\ \E p \in Present, q \in Present : p # q /\ index[p] = index[q]
    /\ Len(GetTopN(index, 2).out) = 2
    /\ GetTopN(index, 2).out[2].Rank = 2

============================================================================
